---- MODULE Spec2Model ----
(***************************************************************************)
(* A model of src/daily_report.py: the daily RescueTime report.            *)
(*                                                                         *)
(* main() checks the two API keys, fetches today's rows with one HTTP GET, *)
(* aggregates them in generate_report() and sends the report with one HTTP *)
(* POST.  An uncaught exception ends the run (pc = "raised").              *)
(*                                                                         *)
(* Representation choices:                                                 *)
(*   - a Python str is a TLA+ string; the report, a str built by           *)
(*     report += "...\n", is the sequence of its lines (the text between   *)
(*     the "\n"), so the no-data sentinel is the one-line report;          *)
(*   - the emoji of the titles and of the productivity labels are left out *)
(*     of the strings (the module is kept in the Basic Multilingual Plane);*)
(*   - an activity row is the tuple the API returns,                       *)
(*     <<timestamp, seconds, people, activity, category, productivity>>;   *)
(*     its timestamp is represented by the hour field of the ISO string    *)
(*     ("2026-11-03T09:00:00" is 9): fromisoformat(...).strftime("%Hh")    *)
(*     reads nothing else of it;                                           *)
(*   - None is the string NoneValue;                                       *)
(*   - the recipient EMAIL_TO and the console prints play no part in the   *)
(*     control flow and are left out.                                      *)
(***************************************************************************)
EXTENDS Integers, Sequences, FiniteSets, TLC

VARIABLES
  pc,                  \* position of the run
  RESCUETIME_API_KEY,  \* module constant read from the environment
  RESEND_API_KEY,      \* module constant read from the environment
  requests,            \* the outbound HTTP requests issued so far, in order
  calls,               \* the stage functions main has entered and left, in order
  raised,              \* the exception that ended the run, or NoneValue
  fetched,             \* what the analytics provider's GET came back with
  data,                \* the parsed JSON payload returned by the fetcher
  rows,                \* generate_report: rows
  idx,                 \* generate_report: number of rows the loop has processed
  hourly_data,         \* generate_report: hour label -> bucket
  category_totals,     \* generate_report: <<category, seconds>> in insertion order
  total_productive,    \* generate_report
  total_distracting,   \* generate_report
  total_time,          \* generate_report
  report,              \* the text returned by generate_report (lines)
  fd_seconds,          \* format_duration: its argument
  fd_result            \* format_duration: its result

vars == <<pc, RESCUETIME_API_KEY, RESEND_API_KEY, requests, calls, raised, fetched, data,
          rows, idx, hourly_data, category_totals, total_productive,
          total_distracting, total_time, report, fd_seconds, fd_result>>

gen_vars == <<rows, idx, hourly_data, category_totals, total_productive,
              total_distracting, total_time>>

NoneValue == "<None>"

----------------------------------------------------------------------------
(* Bounds of the model. *)

\* Most rows in a payload of the whole pipeline.
MaxRows == 2
\* Most rows given to generate_report when it is checked on its own.
MaxReportRows == 3
\* Most rows given to generate_report when the top-3 listing is checked.
MaxTopRows == 4
\* Largest argument format_duration is checked on.
MaxSeconds == 7300

----------------------------------------------------------------------------
(* Plain helpers. *)

Min(a, b) == IF a <= b THEN a ELSE b

Range(s) == {s[i] : i \in DOMAIN s}

RECURSIVE SumSeq(_)
SumSeq(s) == IF s = <<>> THEN 0 ELSE Head(s) + SumSeq(Tail(s))

\* The sequences of at most n elements of D.
SeqsUpTo(D, n) == UNION {[1..k -> D] : k \in 0..n}

\* str(n) of a natural number, as an f-string renders it.
RECURSIVE ToStr(_)
ToStr(n) ==
  IF n < 10
    THEN <<"0", "1", "2", "3", "4", "5", "6", "7", "8", "9">>[n + 1]
    ELSE ToStr(n \div 10) \o ToStr(n % 10)

\* f"{n:02d}" of a natural number.
Pad2(n) == IF n < 10 THEN "0" \o ToStr(n) ELSE ToStr(n)

----------------------------------------------------------------------------
(* format_duration and get_productivity_label. *)

format_duration_round_up(seconds) ==
  LET hours == seconds \div 3600
      minutes == ((seconds % 3600) + 59) \div 60
  IN  IF hours > 0
        THEN ToStr(hours) \o "h" \o Pad2(minutes)
        ELSE ToStr(minutes) \o "min"

format_duration(seconds) ==
  LET hours == seconds \div 3600
      minutes == (seconds % 3600) \div 60
  IN  IF hours > 0
        THEN ToStr(hours) \o "h" \o Pad2(minutes)
        ELSE ToStr(minutes) \o "min"

get_productivity_label(score) ==
  CASE score = 2  -> "Très productif"
    [] score = 1  -> "Productif"
    [] score = 0  -> "Neutre"
    [] score = -1 -> "Distrayant"
    [] score = -2 -> "Très distrayant"
    [] OTHER      -> "Neutre"

----------------------------------------------------------------------------
(* generate_report: the aggregation loop. *)

Sentinel == "Aucune donnée RescueTime disponible pour aujourd'hui."

\* data.get("rows", []) of a JSON object.
data_get_rows(d) == IF d.has_rows THEN d.rows ELSE <<>>

rows_empty_upto_one(r) == Len(r) <= 1

\* `not rows`: the empty-list test that guards the sentinel.
rows_empty(r) == r = <<>>

\* datetime.fromisoformat(timestamp...).strftime("%Hh")
hour_of(timestamp) == Pad2(timestamp) \o "h"

\* The defaultdict's value for an hour not seen yet.
EmptyBucket ==
  [activities |-> <<>>, total_seconds |-> 0,
   productive_seconds |-> 0, distracting_seconds |-> 0]

bucket_of(hd, hour) == IF hour \in DOMAIN hd THEN hd[hour] ELSE EmptyBucket

classify_strict(productivity) ==
  IF productivity > 1 THEN "productive"
  ELSE IF productivity < -1 THEN "distracting"
  ELSE "neutral"

\* The branch the if/elif on productivity takes.
classify(productivity) ==
  IF productivity >= 1 THEN "productive"
  ELSE IF productivity <= -1 THEN "distracting"
  ELSE "neutral"

\* hourly_data[hour] after one row is added to it.
add_to_bucket(b, activity, seconds, category, productivity) ==
  [activities |->
     Append(b.activities,
            [name |-> activity, seconds |-> seconds,
             productivity |-> productivity, category |-> category]),
   total_seconds |-> b.total_seconds + seconds,
   productive_seconds |->
     b.productive_seconds
       + (IF classify(productivity) = "productive" THEN seconds ELSE 0),
   distracting_seconds |->
     b.distracting_seconds
       + (IF classify(productivity) = "distracting" THEN seconds ELSE 0)]

add_to_category_overwrite(ct, category, seconds) ==
  IF \E i \in DOMAIN ct : ct[i].category = category
    THEN [i \in DOMAIN ct |->
            IF ct[i].category = category
              THEN [category |-> category, seconds |-> seconds]
              ELSE ct[i]]
    ELSE Append(ct, [category |-> category, seconds |-> seconds])

\* category_totals[category] += seconds on the insertion-ordered dict.
add_to_category(ct, category, seconds) ==
  IF \E i \in DOMAIN ct : ct[i].category = category
    THEN [i \in DOMAIN ct |->
            IF ct[i].category = category
              THEN [category |-> category, seconds |-> ct[i].seconds + seconds]
              ELSE ct[i]]
    ELSE Append(ct, [category |-> category, seconds |-> seconds])

----------------------------------------------------------------------------
(* generate_report: the rendering. *)

\* datetime.now().strftime("%d/%m/%Y"): the day of the run.
Today == "03/11/2026"

percentage_round_up(part, total) ==
  IF total # 0 THEN (part * 100 + total - 1) \div total ELSE 0

\* {part*100//total_time if total_time else 0}
percentage(part, total) ==
  IF total # 0 THEN (part * 100) \div total ELSE 0

\* x inserted into a list sorted by descending seconds, after every element
\* that does not have fewer seconds (the sort is stable).
RECURSIVE insert_desc(_, _)
insert_desc(sorted, x) ==
  IF sorted = <<>> THEN <<x>>
  ELSE IF Head(sorted).seconds >= x.seconds
    THEN <<Head(sorted)>> \o insert_desc(Tail(sorted), x)
    ELSE <<x>> \o sorted

RECURSIVE sorted_by_seconds_asc(_)
sorted_by_seconds_asc(seq) ==
  IF seq = <<>> THEN <<>>
  ELSE LET i == CHOOSE j \in DOMAIN seq :
                  \A k \in DOMAIN seq : seq[j].seconds <= seq[k].seconds
       IN  <<seq[i]>> \o
           sorted_by_seconds_asc(SubSeq(seq, 1, i - 1) \o SubSeq(seq, i + 1, Len(seq)))

\* sorted(seq, key=lambda x: seconds of x, reverse=True)
RECURSIVE sorted_by_seconds_desc(_)
sorted_by_seconds_desc(seq) ==
  IF seq = <<>> THEN <<>>
  ELSE insert_desc(sorted_by_seconds_desc(SubSeq(seq, 1, Len(seq) - 1)),
                   seq[Len(seq)])

top_activities_unsorted(data_hour) ==
  SubSeq(data_hour.activities, 1, Min(3, Len(data_hour.activities)))

\* sorted(data_hour["activities"], ..., reverse=True)[:3]
top_activities(data_hour) ==
  LET s == sorted_by_seconds_desc(data_hour.activities)
  IN  SubSeq(s, 1, Min(3, Len(s)))

category_rows_asc(ct) == sorted_by_seconds_asc(ct)

\* sorted(category_totals.items(), key=lambda x: x[1], reverse=True)
category_rows(ct) == sorted_by_seconds_desc(ct)

\* The hour an hour label stands for; labels are two digits and "h", so
\* their order as strings is the order of these numbers.
hour_value(label) == CHOOSE h \in 0..23 : hour_of(h) = label

\* sorted(hourly_data.keys())
RECURSIVE sorted_hours(_)
sorted_hours(keys) ==
  IF keys = {} THEN <<>>
  ELSE LET first == CHOOSE k \in keys :
                      \A j \in keys : hour_value(k) <= hour_value(j)
       IN  <<first>> \o sorted_hours(keys \ {first})

header_lines(time, productive, distracting) ==
  << "# Rapport RescueTime - " \o Today,
     "",
     "**Temps total suivi** : " \o format_duration(time),
     "**Temps productif** : " \o format_duration(productive)
        \o " (" \o ToStr(percentage(productive, time)) \o "%)",
     "**Temps distrayant** : " \o format_duration(distracting)
        \o " (" \o ToStr(percentage(distracting, time)) \o "%)",
     "",
     "---",
     "",
     "## Détail par heure",
     "" >>

activity_line(act) ==
  "- **" \o act.name \o "** (" \o format_duration(act.seconds) \o ") "
    \o get_productivity_label(act.productivity)

hour_lines(hour, data_hour) ==
  LET top == top_activities(data_hour)
  IN  << "### " \o hour \o " - " \o format_duration(data_hour.total_seconds) >>
      \o [i \in 1..Len(top) |-> activity_line(top[i])]
      \o << "" >>

RECURSIVE hours_lines(_, _)
hours_lines(hd, hours) ==
  IF hours = <<>> THEN <<>>
  ELSE hour_lines(Head(hours), hd[Head(hours)]) \o hours_lines(hd, Tail(hours))

category_line(item) ==
  "| " \o item.category \o " | " \o format_duration(item.seconds) \o " |"

category_header_lines ==
  << "---",
     "",
     "## Récapitulatif par catégorie",
     "",
     "| Catégorie | Temps |",
     "|-----------|-------|" >>

category_lines(ct) ==
  LET items == category_rows(ct)
  IN  category_header_lines \o [i \in 1..Len(items) |-> category_line(items[i])]

render_report(hd, ct, time, productive, distracting) ==
  header_lines(time, productive, distracting)
    \o hours_lines(hd, sorted_hours(DOMAIN hd))
    \o category_lines(ct)

----------------------------------------------------------------------------
(* The inputs: the environment, the providers' answers, the rows. *)

\* What os.environ.get can give for a key: unset, empty, set.
KeyValues == {NoneValue, "", "key"}

\* Activities as RescueTime classifies them: <<name, category, productivity>>.
ActivityA == <<"A", "Work", 2>>
ActivityB == <<"B", "Social", -2>>
ActivityC == <<"C", "Work", 1>>
ActivityD == <<"D", "News", -1>>
ActivityE == <<"E", "Utilities", 0>>

\* The 6-element rows of the given hours, durations and activities.
MakeRows(hours, durations, activities) ==
  {<<h, s, 1, a[1], a[2], a[3]>> : h \in hours, s \in durations, a \in activities}

\* A row cut short, as a malformed payload may hold.
ShortRow == <<9, 1800>>

PipelineRows ==
  MakeRows({9, 14}, {0, 1800}, {ActivityA, ActivityB}) \cup {ShortRow}

ReportRows ==
  MakeRows({9}, {0, 1800, 3600},
           {ActivityA, ActivityB, ActivityC, ActivityD, ActivityE})
    \cup MakeRows({14}, {1800}, {ActivityA, ActivityD})

TopRows == MakeRows({9, 14}, {60, 1800, 3600}, {ActivityA})

\* A parsed JSON payload: an object with "rows", an object without (such as
\* an error object), or a value that is no object (a list).
JsonObject(r) == [type |-> "dict", has_rows |-> TRUE, rows |-> r]
JsonNoRows == [type |-> "dict", has_rows |-> FALSE, rows |-> <<>>]
JsonList == [type |-> "list", has_rows |-> FALSE, rows |-> <<>>]
NoData == [type |-> NoneValue, has_rows |-> FALSE, rows |-> <<>>]

PipelinePayloads ==
  {JsonNoRows, JsonList} \cup {JsonObject(r) : r \in SeqsUpTo(PipelineRows, MaxRows)}

\* What requests.get can come back with: an exception of the transport, or a
\* response with a status and a body that is JSON text or is not.
NetworkError == [kind |-> "exception", status |-> 0, is_json |-> FALSE, json |-> NoData]
NoResponse == [kind |-> "none", status |-> 0, is_json |-> FALSE, json |-> NoData]
HttpResponse(status, is_json, value) ==
  [kind |-> "response", status |-> status, is_json |-> is_json, json |-> value]

GetResponses ==
  {NetworkError}
    \cup {HttpResponse(st, FALSE, NoData) : st \in {200, 401, 500}}
    \cup {HttpResponse(st, TRUE, v) : st \in {200, 401, 500}, v \in PipelinePayloads}

\* The email provider's answers: {"id": ...} on success, an error otherwise.
JsonId == [type |-> "dict", has_rows |-> FALSE, rows |-> <<>>]
PostResponses ==
  {NetworkError, HttpResponse(200, TRUE, JsonId), HttpResponse(422, TRUE, JsonId),
   HttpResponse(200, FALSE, NoData)}

----------------------------------------------------------------------------
(* The HTTP client. *)

status_is_error_never(response) == FALSE

\* response.raise_for_status() raises for a 4xx or 5xx status.
status_is_error(response) == response.status >= 400 /\ response.status < 600

http_failure_json_unchecked(response) ==
  IF response.kind = "exception" THEN "ConnectionError"
  ELSE IF status_is_error(response) THEN "HTTPError"
  ELSE NoneValue

\* The exception get_rescuetime_data or send_email ends with, or NoneValue.
http_failure(response) ==
  IF response.kind = "exception" THEN "ConnectionError"
  ELSE IF status_is_error(response) THEN "HTTPError"
  ELSE IF ~response.is_json THEN "JSONDecodeError"
  ELSE NoneValue

----------------------------------------------------------------------------
(* The initial states. *)

EmptyHours == [h \in {} |-> EmptyBucket]

InitLocals ==
  /\ rows = <<>>
  /\ idx = 0
  /\ hourly_data = EmptyHours
  /\ category_totals = <<>>
  /\ total_productive = 0
  /\ total_distracting = 0
  /\ total_time = 0
  /\ report = <<>>

InitRun ==
  /\ requests = <<>>
  /\ calls = <<>>
  /\ raised = NoneValue
  /\ fetched = NoResponse
  /\ InitLocals

\* The process starts: the module constants are read from the environment.
Init ==
  /\ pc = "main"
  /\ RESCUETIME_API_KEY \in KeyValues
  /\ RESEND_API_KEY \in KeyValues
  /\ data = NoData
  /\ InitRun
  /\ fd_seconds = 0
  /\ fd_result = ""


\* generate_report is called on a payload of well-formed rows.
InitReport ==
  /\ pc = "generate"
  /\ RESCUETIME_API_KEY = "key"
  /\ RESEND_API_KEY = "key"
  /\ data \in {JsonObject(r) : r \in SeqsUpTo(ReportRows, MaxReportRows)}
  /\ InitRun
  /\ fd_seconds = 0
  /\ fd_result = ""

\* generate_report is called on a payload with up to MaxTopRows rows.
InitTop ==
  /\ pc = "generate"
  /\ RESCUETIME_API_KEY = "key"
  /\ RESEND_API_KEY = "key"
  /\ data \in {JsonObject(r) : r \in SeqsUpTo(TopRows, MaxTopRows)}
  /\ InitRun
  /\ fd_seconds = 0
  /\ fd_result = ""

\* format_duration is called on a number of seconds.
InitDuration ==
  /\ pc = "format_duration"
  /\ RESCUETIME_API_KEY = "key"
  /\ RESEND_API_KEY = "key"
  /\ data = NoData
  /\ InitRun
  /\ fd_seconds \in 0..MaxSeconds
  /\ fd_result = ""

----------------------------------------------------------------------------
(* main: the configuration check. *)

is_none(value) == value = NoneValue

\* `not value` of an environment value: None and "" are false.
not_value(value) == value = NoneValue \/ value = ""

MainCheckConfig ==
  /\ pc = "main"
  /\ IF not_value(RESCUETIME_API_KEY)
       THEN /\ raised' = "ValueError: RESCUETIME_API_KEY non définie"
            /\ pc' = "raised"
       ELSE IF not_value(RESEND_API_KEY)
         THEN /\ raised' = "ValueError: RESEND_API_KEY non définie"
              /\ pc' = "raised"
         ELSE /\ pc' = "fetch"
              /\ UNCHANGED raised
  /\ UNCHANGED <<RESCUETIME_API_KEY, RESEND_API_KEY, requests, calls, fetched,
                 data, gen_vars, report, fd_seconds, fd_result>>

----------------------------------------------------------------------------
(* get_rescuetime_data, called by main. *)

GetRequest ==
  [method |-> "GET", url |-> "https://www.rescuetime.com/anapi/data",
   key |-> RESCUETIME_API_KEY, subject |-> "", html |-> <<>>]

GetRescuetimeData ==
  /\ pc = "fetch"
  /\ \E response \in GetResponses :
       /\ requests' = Append(requests, GetRequest)
       /\ fetched' = response
       /\ IF http_failure(response) # NoneValue
            THEN /\ raised' = http_failure(response)
                 /\ pc' = "raised"
                 /\ calls' = Append(calls, "get_rescuetime_data")
                 /\ UNCHANGED data
            ELSE /\ data' = response.json
                 /\ pc' = "generate"
                 /\ calls' = calls \o <<"get_rescuetime_data",
                                        "get_rescuetime_data:return">>
                 /\ UNCHANGED raised
  /\ UNCHANGED <<RESCUETIME_API_KEY, RESEND_API_KEY, gen_vars, report,
                 fd_seconds, fd_result>>

----------------------------------------------------------------------------
(* generate_report. *)

\* Entry: rows = data.get("rows", []) and the empty-data return.
GenerateReportBegin ==
  /\ pc = "generate"
  /\ IF data.type # "dict"
       THEN \* data.get of a value that is no dict
            /\ raised' = "AttributeError"
            /\ pc' = "raised"
            /\ calls' = Append(calls, "generate_report")
            /\ UNCHANGED <<rows, report>>
       ELSE /\ rows' = data_get_rows(data)
            /\ UNCHANGED raised
            /\ IF rows_empty(data_get_rows(data))
                 THEN /\ report' = <<Sentinel>>
                      /\ pc' = "report_done"
                      /\ calls' = calls \o <<"generate_report",
                                             "generate_report:return">>
                 ELSE /\ pc' = "loop"
                      /\ calls' = Append(calls, "generate_report")
                      /\ UNCHANGED report
  /\ idx' = 0
  /\ hourly_data' = EmptyHours
  /\ category_totals' = <<>>
  /\ total_productive' = 0
  /\ total_distracting' = 0
  /\ total_time' = 0
  /\ UNCHANGED <<RESCUETIME_API_KEY, RESEND_API_KEY, requests, fetched, data,
                 fd_seconds, fd_result>>

\* One iteration of `for row in rows`.
GenerateReportRow ==
  /\ pc = "loop"
  /\ idx < Len(rows)
  /\ LET row == rows[idx + 1] IN
       IF Len(row) < 6
         THEN \* row[5] of a row with fewer elements
              /\ raised' = "IndexError"
              /\ pc' = "raised"
              /\ UNCHANGED <<idx, hourly_data, category_totals, total_productive,
                             total_distracting, total_time>>
         ELSE LET timestamp == row[1]
                  seconds == row[2]
                  activity == row[4]
                  category == row[5]
                  productivity == row[6]
                  hour == hour_of(timestamp)
                  bucket == add_to_bucket(bucket_of(hourly_data, hour), activity,
                                          seconds, category, productivity)
              IN  /\ hourly_data' =
                       [h \in DOMAIN hourly_data \cup {hour} |->
                          IF h = hour THEN bucket ELSE hourly_data[h]]
                  /\ category_totals' =
                       add_to_category(category_totals, category, seconds)
                  /\ total_time' = total_time + seconds
                  /\ total_productive' =
                       total_productive
                         + (IF classify(productivity) = "productive"
                              THEN seconds ELSE 0)
                  /\ total_distracting' =
                       total_distracting
                         + (IF classify(productivity) = "distracting"
                              THEN seconds ELSE 0)
                  /\ idx' = idx + 1
                  /\ UNCHANGED <<pc, raised>>
  /\ UNCHANGED <<RESCUETIME_API_KEY, RESEND_API_KEY, requests, calls, fetched,
                 data, rows, report, fd_seconds, fd_result>>

\* After the loop: the report is built and returned.
GenerateReportRender ==
  /\ pc = "loop"
  /\ idx = Len(rows)
  /\ report' = render_report(hourly_data, category_totals, total_time,
                             total_productive, total_distracting)
  /\ pc' = "report_done"
  /\ calls' = Append(calls, "generate_report:return")
  /\ UNCHANGED <<RESCUETIME_API_KEY, RESEND_API_KEY, requests, raised, fetched,
                 data, gen_vars, fd_seconds, fd_result>>

----------------------------------------------------------------------------
(* send_email, called by main with the report. *)

PostRequest ==
  [method |-> "POST", url |-> "https://api.resend.com/emails",
   key |-> RESEND_API_KEY, subject |-> "Rapport RescueTime - " \o Today,
   html |-> report]

SendEmail ==
  /\ pc = "report_done"
  /\ \E response \in PostResponses :
       /\ requests' = Append(requests, PostRequest)
       /\ IF http_failure(response) # NoneValue
            THEN /\ raised' = http_failure(response)
                 /\ pc' = "raised"
                 /\ calls' = Append(calls, "send_email")
            ELSE /\ pc' = "done"
                 /\ calls' = calls \o <<"send_email", "send_email:return">>
                 /\ UNCHANGED raised
  /\ UNCHANGED <<RESCUETIME_API_KEY, RESEND_API_KEY, fetched, data, gen_vars,
                 report, fd_seconds, fd_result>>

----------------------------------------------------------------------------
(* format_duration, called on its own. *)

FormatDuration ==
  /\ pc = "format_duration"
  /\ fd_result' = format_duration(fd_seconds)
  /\ pc' = "formatted"
  /\ UNCHANGED <<RESCUETIME_API_KEY, RESEND_API_KEY, requests, calls, raised,
                 fetched, data, gen_vars, report, fd_seconds>>

----------------------------------------------------------------------------
(* The specifications. *)

\* A run of main.
Next ==
  \/ MainCheckConfig
  \/ GetRescuetimeData
  \/ GenerateReportBegin
  \/ GenerateReportRow
  \/ GenerateReportRender
  \/ SendEmail

Spec == Init /\ [][Next]_vars

\* A call of generate_report.
NextReport ==
  \/ GenerateReportBegin
  \/ GenerateReportRow
  \/ GenerateReportRender

SpecReport == InitReport /\ [][NextReport]_vars

SpecTop == InitTop /\ [][NextReport]_vars

\* A call of format_duration.
NextDuration == FormatDuration

SpecDuration == InitDuration /\ [][NextDuration]_vars

----------------------------------------------------------------------------
(* Vocabulary of the properties. *)

Missing(value) == value \in {NoneValue, ""}

IsPrefix(s, t) == Len(s) <= Len(t) /\ s = SubSeq(t, 1, Len(s))

StageOrder ==
  <<"get_rescuetime_data", "get_rescuetime_data:return",
    "generate_report", "generate_report:return",
    "send_email", "send_email:return">>

Methods == [i \in DOMAIN requests |-> requests[i].method]

Invoked(f) == f \in Range(calls)

\* The GET came back with no answer (a network error) or with an error
\* status (4xx or 5xx).
FetchFailed ==
  \/ fetched.kind = "exception"
  \/ fetched.kind = "response" /\ fetched.status \in 400..599

\* The rows the loop has processed so far.
Processed == SubSeq(rows, 1, idx)

\* The seconds of the rows of s of the given hours, categories and scores,
\* summed.
RECURSIVE SumWhere(_, _, _, _)
SumWhere(s, hours, categories, scores) ==
  IF s = <<>> THEN 0
  ELSE (IF Head(s)[1] \in hours /\ Head(s)[5] \in categories /\ Head(s)[6] \in scores
          THEN Head(s)[2] ELSE 0)
       + SumWhere(Tail(s), hours, categories, scores)

RECURSIVE SumHourTotals(_, _)
SumHourTotals(hd, hours) ==
  IF hours = {} THEN 0
  ELSE LET h == CHOOSE x \in hours : TRUE
       IN  hd[h].total_seconds + SumHourTotals(hd, hours \ {h})

SecondsOf(s) == [i \in DOMAIN s |-> s[i].seconds]

----------------------------------------------------------------------------
(* C1 *)

\* C1: when either required key is unset or empty, the run ends with the
\* configuration error before any network activity: no GET and no POST is
\* ever issued, and no stage is entered.
C1_ConfigErrorBeforeNetwork ==
  (Missing(RESCUETIME_API_KEY) \/ Missing(RESEND_API_KEY)) =>
    /\ requests = <<>>
    /\ calls = <<>>
    /\ pc \in {"main", "raised"}
    /\ pc = "raised" =>
         raised = (IF Missing(RESCUETIME_API_KEY)
                     THEN "ValueError: RESCUETIME_API_KEY non définie"
                     ELSE "ValueError: RESEND_API_KEY non définie")

C1_Witness ==
  /\ pc = "raised"
  /\ RESCUETIME_API_KEY = "key"
  /\ RESEND_API_KEY = ""
  /\ raised = "ValueError: RESEND_API_KEY non définie"
  /\ requests = <<>>

----------------------------------------------------------------------------
(* C2 *)

\* C2: the stages run strictly in sequence (fetch returns before
\* generate_report is entered, generate_report returns before the POST is
\* issued), and a failed fetch (network error or non-success response) ends
\* the run: generate_report is never invoked and no POST is issued.
C2_SequentialAndFetchFailureAborts ==
  /\ IsPrefix(calls, StageOrder)
  /\ IsPrefix(Methods, <<"GET", "POST">>)
  /\ Invoked("generate_report") =>
       /\ Methods # <<>>
       /\ fetched.kind = "response"
       /\ ~FetchFailed
  /\ "POST" \in Range(Methods) =>
       /\ Invoked("generate_report:return")
       /\ requests[2].html = report
  /\ FetchFailed =>
       /\ pc = "raised"
       /\ raised \in {"ConnectionError", "HTTPError"}
       /\ ~Invoked("generate_report")
       /\ "POST" \notin Range(Methods)

C2_Witness ==
  /\ fetched.kind = "response"
  /\ fetched.status = 500
  /\ pc = "raised"
  /\ raised = "HTTPError"
  /\ calls = <<"get_rescuetime_data">>

----------------------------------------------------------------------------
(* C3 *)

Stamps(s) == {s[i][1] : i \in DOMAIN s}
Categories(s) == {s[i][5] : i \in DOMAIN s}
Scores == -2..2

\* C3: after each processed row, and so after the loop, the total_seconds of
\* the hour buckets, summed, equal the per-category totals, summed, and
\* equal total_time, the seconds of the rows processed.
C3_HourAndCategorySumsEqualTotal ==
  /\ SumHourTotals(hourly_data, DOMAIN hourly_data) = total_time
  /\ SumSeq(SecondsOf(category_totals)) = total_time
  /\ total_time = SumWhere(Processed, Stamps(rows), Categories(rows), Scores)

C3_Witness ==
  /\ pc = "report_done"
  /\ idx = 3
  /\ Cardinality(DOMAIN hourly_data) = 2
  /\ Len(category_totals) = 2
  /\ \A i \in DOMAIN rows : rows[i][2] > 0

----------------------------------------------------------------------------
(* C4 *)

\* p is part*100 / total_time truncated, between 0 and 100; 0 when
\* total_time is 0.
IsTruncatedPercentage(p, part) ==
  IF total_time > 0
    THEN /\ p \in 0..100
         /\ p * total_time <= part * 100
         /\ part * 100 < (p + 1) * total_time
    ELSE p = 0

\* C4: the two percentages of the report are value*100 / total_time
\* truncated, within 0..100 when total_time > 0, and both 0 when total_time
\* is 0 (rows whose seconds sum to 0 still give a report).
C4_PercentagesTruncatedAndBounded ==
  (pc = "report_done" /\ rows # <<>>) =>
    /\ \E p \in 0..100 :
         /\ IsTruncatedPercentage(p, total_productive)
         /\ report[4] = "**Temps productif** : "
                          \o format_duration(total_productive)
                          \o " (" \o ToStr(p) \o "%)"
    /\ \E d \in 0..100 :
         /\ IsTruncatedPercentage(d, total_distracting)
         /\ report[5] = "**Temps distrayant** : "
                          \o format_duration(total_distracting)
                          \o " (" \o ToStr(d) \o "%)"

C4_Witness ==
  /\ pc = "report_done"
  /\ Len(rows) = 2
  /\ total_time = 0
  /\ report[4] = "**Temps productif** : 0min (0%)"
  /\ report[5] = "**Temps distrayant** : 0min (0%)"

----------------------------------------------------------------------------
(* C5 *)

\* A payload that is not a JSON object with a "rows" array of 6-element arrays.
Malformed(response) ==
  \/ ~response.is_json
  \/ response.json.type # "dict"
  \/ ~response.json.has_rows
  \/ \E i \in DOMAIN response.json.rows : Len(response.json.rows[i]) # 6

----------------------------------------------------------------------------
(* C6 *)

\* C6: generate_report returns exactly the sentinel, with no header, hour
\* section or category table and without aggregating anything, when the row
\* list is empty, and only then: a non-empty row list yields a full report.
C6_SentinelIffEmptyRows ==
  /\ pc = "loop" => data.rows # <<>>
  /\ pc = "report_done" =>
       /\ (report = <<Sentinel>>) <=> (data.rows = <<>>)
       /\ data.rows = <<>> =>
            /\ hourly_data = EmptyHours
            /\ category_totals = <<>>
            /\ total_time = 0
       /\ data.rows # <<>> =>
            /\ idx = Len(data.rows)
            /\ Len(report) > Len(header_lines(0, 0, 0)) + Len(category_header_lines)
            /\ report[1] = "# Rapport RescueTime - " \o Today
            /\ "## Détail par heure" \in Range(report)
            /\ "| Catégorie | Temps |" \in Range(report)
            /\ Sentinel \notin Range(report)

C6_Witness ==
  /\ pc = "report_done"
  /\ data = JsonObject(<<>>)
  /\ report = <<Sentinel>>

----------------------------------------------------------------------------
(* C7 *)

ProductiveScores == {s \in Scores : s >= 1}
DistractingScores == {s \in Scores : s <= -1}
NeutralScores == Scores \ (ProductiveScores \cup DistractingScores)

ExampleRows == <<<<9, 3600, 1, "A", "Work", 2>>, <<9, 1800, 1, "B", "Social", -2>>>>

\* C7: the seconds of each row go to exactly one class, productive for a
\* score >= 1, distracting for a score <= -1, neutral otherwise, in the
\* row's hour bucket and in the day totals; 3600 s at score 2 and 1800 s at
\* score -2 give 5400 s, 3600 s productive (66%), 1800 s distracting (33%).
C7_ClassificationByScore ==
  /\ total_productive =
       SumWhere(Processed, Stamps(rows), Categories(rows), ProductiveScores)
  /\ total_distracting =
       SumWhere(Processed, Stamps(rows), Categories(rows), DistractingScores)
  /\ total_time - total_productive - total_distracting =
       SumWhere(Processed, Stamps(rows), Categories(rows), NeutralScores)
  /\ DOMAIN hourly_data = {hour_of(t) : t \in Stamps(Processed)}
  /\ \A t \in Stamps(Processed) :
       LET b == hourly_data[hour_of(t)] IN
         /\ b.productive_seconds =
              SumWhere(Processed, {t}, Categories(rows), ProductiveScores)
         /\ b.distracting_seconds =
              SumWhere(Processed, {t}, Categories(rows), DistractingScores)
         /\ b.total_seconds - b.productive_seconds - b.distracting_seconds =
              SumWhere(Processed, {t}, Categories(rows), NeutralScores)
  /\ (pc = "report_done" /\ rows = ExampleRows) =>
       /\ total_time = 5400
       /\ total_productive = 3600
       /\ total_distracting = 1800
       /\ report[3] = "**Temps total suivi** : 1h30"
       /\ report[4] = "**Temps productif** : 1h00 (66%)"
       /\ report[5] = "**Temps distrayant** : 30min (33%)"

C7_Witness ==
  /\ pc = "report_done"
  /\ rows = ExampleRows
  /\ total_productive = 3600
  /\ total_distracting = 1800

----------------------------------------------------------------------------
(* C8 *)

\* C8: the category table lists every category of the input exactly once,
\* with the seconds of its rows summed, in order of descending total:
\* each table row's total is >= the next one's.
C8_CategoryTableDescending ==
  (pc = "report_done" /\ rows # <<>>) =>
    LET table == category_rows(category_totals)
        n == Len(table)
        first == Len(report) - n
    IN  /\ n = Cardinality(Categories(rows))
        /\ {table[i].category : i \in 1..n} = Categories(rows)
        /\ \A i \in 1..n :
             table[i].seconds =
               SumWhere(rows, Stamps(rows), {table[i].category}, Scores)
        /\ \A i \in 1..(n - 1) : table[i].seconds >= table[i + 1].seconds
        /\ report[first] = "|-----------|-------|"
        /\ \A i \in 1..n :
             report[first + i] =
               "| " \o table[i].category \o " | "
                 \o format_duration(table[i].seconds) \o " |"

C8_Witness ==
  /\ pc = "report_done"
  /\ Len(category_totals) = 3
  /\ category_totals[1].seconds < category_totals[2].seconds
  /\ category_totals[2].seconds < category_totals[3].seconds
  /\ report[Len(report)] =
       "| " \o category_totals[1].category \o " | "
         \o format_duration(category_totals[1].seconds) \o " |"

----------------------------------------------------------------------------
(* C9 *)

\* The two decimal digits of a number below 100.
TwoDigits(m) == ToStr(m \div 10) \o ToStr(m % 10)

\* C9: format_duration(s) renders h = s div 3600 and m = (s mod 3600) div 60,
\* the remaining seconds dropped, as "<h>h<mm>" when h > 0 and as "<m>min"
\* when h = 0, with m in 0..59; 3661 gives "1h01", 90 "1min", 0 "0min".
C9_FormatDuration ==
  pc = "formatted" =>
    /\ \E h \in 0..(MaxSeconds \div 3600), m \in 0..59 :
         /\ 3600 * h + 60 * m <= fd_seconds
         /\ fd_seconds < 3600 * h + 60 * (m + 1)
         /\ fd_result = (IF h > 0 THEN ToStr(h) \o "h" \o TwoDigits(m)
                         ELSE ToStr(m) \o "min")
    /\ fd_seconds = 3661 => fd_result = "1h01"
    /\ fd_seconds = 90 => fd_result = "1min"
    /\ fd_seconds = 0 => fd_result = "0min"

C9_Witness ==
  /\ pc = "formatted"
  /\ fd_seconds = 3661
  /\ fd_result = "1h01"

----------------------------------------------------------------------------
(* C10 *)

\* How many elements of s equal x.
Count(s, x) == Cardinality({i \in DOMAIN s : s[i] = x})

\* top holds exactly the activities of acts at the indices of chosen.
Selects(chosen, acts, top) ==
  /\ Cardinality(chosen) = Len(top)
  /\ \A i \in DOMAIN top :
       Count(top, top[i]) = Cardinality({j \in chosen : acts[j] = top[i]})

\* C10: for every hour bucket the report lists min(3, n) of the hour's n
\* activities, in non-increasing order of seconds, none of the unlisted ones
\* having strictly more seconds than a listed one, under a title line whose
\* total sums all the activities of the hour.
C10_TopThreeActivitiesPerHour ==
  pc = "report_done" =>
    \A hour \in DOMAIN hourly_data :
      LET acts == hourly_data[hour].activities
          top == top_activities(hourly_data[hour])
          n == Len(top)
      IN  /\ n = Min(3, Len(acts))
          /\ \A i \in 1..(n - 1) : top[i].seconds >= top[i + 1].seconds
          /\ \E chosen \in SUBSET DOMAIN acts :
               /\ Selects(chosen, acts, top)
               /\ \A j \in DOMAIN acts \ chosen :
                    \A i \in chosen : acts[j].seconds <= acts[i].seconds
          /\ \E k \in DOMAIN report :
               /\ report[k] = "### " \o hour \o " - "
                                \o format_duration(SumSeq(SecondsOf(acts)))
               /\ \A i \in 1..n :
                    report[k + i] =
                      "- **" \o top[i].name \o "** ("
                        \o format_duration(top[i].seconds) \o ") "
                        \o get_productivity_label(top[i].productivity)
               /\ report[k + n + 1] = ""

C10_Witness ==
  /\ pc = "report_done"
  /\ \E hour \in DOMAIN hourly_data :
       LET acts == hourly_data[hour].activities IN
         /\ Len(acts) = 4
         /\ acts[1].seconds = 60
         /\ acts[2].seconds = 1800
         /\ acts[3].seconds = 1800
         /\ acts[4].seconds = 3600
         /\ \E k \in DOMAIN report :
              /\ report[k] = "### " \o hour \o " - 2h01"
              /\ report[k + 1] = "- **A** (1h00) Très productif"
              /\ report[k + 3] = "- **A** (30min) Très productif"
              /\ report[k + 4] = ""

====
